---- MODULE Spec2Model ----
(***************************************************************************)
(* Model of the four traversal iterators of id-tree                        *)
(* (src/src/tree/iterators.rs): Ancestors, AncestorIds, Children and       *)
(* ChildrenIds, over an arena-indexed Tree.                                *)
(*                                                                         *)
(* The Tree, Node and NodeId types live outside iterators.rs; they are     *)
(* modelled from their documented interface: a Tree is a vector of node    *)
(* slots plus an optional root, a NodeId is the index of a slot (1-based   *)
(* here), a Node holds data, an optional parent NodeId and an ordered      *)
(* vector of child NodeIds.  A reference &Node is modelled as the slot     *)
(* address together with the Node stored there.                            *)
(***************************************************************************)
EXTENDS Integers, Sequences, FiniteSets, TLC

\* ---- bounds ----
MaxNodes == 3

\* Calls of next made on one handle: enough to exhaust the longest walk
\* (MaxNodes - 1 elements) and call twice more.
MaxCalls == MaxNodes + 1

\* The client holds two iterator handles.
Iters == {1, 2}

VARIABLES tree, its

vars == <<tree, its>>

\* ---- Option<T> ----
None == <<>>

Some(x) == <<x>>

IsSome(o) == Len(o) = 1

Unwrap(o) == o[1]

\* ---- Tree / Node ----
NodeNew(d) == [data |-> d, parent |-> None, children |-> <<>>]

TreeNew == [nodes |-> <<>>, root |-> None]

NodeIds(t) == 1..Len(t.nodes)

IsLive(t, id) == id \in NodeIds(t)

\* What a lookup of an identifier that names no live node may read: the
\* lookup is unchecked, the content read is not defined.
Dangling(id) == [addr |-> id, node |-> [data |-> -1, parent |-> None, children |-> <<>>]]

\* Tree::get_unsafe: the reference to the slot the identifier names.
GetUnsafe(t, id) ==
    IF IsLive(t, id) THEN [addr |-> id, node |-> t.nodes[id]] ELSE Dangling(id)

\* Node::parent
Parent(ref) == ref.node.parent

\* Node::children
ChildrenOf(ref) == ref.node.children

\* Tree::insert(node, AsRoot): the new node becomes the root; a previous root
\* becomes its only child.
InsertAsRootTree(t, d) ==
    LET new == Len(t.nodes) + 1
    IN  IF IsSome(t.root)
        THEN LET old == Unwrap(t.root)
                 n1 == [t.nodes EXCEPT ![old].parent = Some(new)]
             IN  [nodes |-> Append(n1, [NodeNew(d) EXCEPT !.children = <<old>>]),
                  root |-> Some(new)]
        ELSE [nodes |-> Append(t.nodes, NodeNew(d)), root |-> Some(new)]

\* Tree::insert(node, UnderNode(p)): the new node becomes the last child of p.
InsertUnderNodeTree(t, d, p) ==
    LET new == Len(t.nodes) + 1
        n1 == [t.nodes EXCEPT ![p].children = Append(@, new)]
    IN  [nodes |-> Append(n1, [NodeNew(d) EXCEPT !.parent = Some(p)]),
         root |-> t.root]

\* ---- iterator handles ----
\* A handle that holds no iterator.
\* kind, start, new_lookups and out are bookkeeping: the kind of iterator, the
\* identifier given to new, the identifiers new resolved in the tree, and the
\* calls of next made so far.
NoIter == [kind |-> "none", start |-> 0, node_id |-> None,
           slice |-> <<>>, pos |-> 0, new_lookups |-> <<>>, out |-> <<>>]

\* One call of next: its result and the identifiers it resolved in the tree.
Call(res, looked) == [res |-> res, lookups |-> looked]

\* std::slice::Iter::next on (slice, pos)
SliceNext(slice, pos) ==
    IF pos < Len(slice)
    THEN [pos |-> pos + 1, item |-> Some(slice[pos + 1])]
    ELSE [pos |-> pos, item |-> None]

\* Appends the record of one call of next to the handle's call history.
Record(it, call) == [it EXCEPT !.out = Append(@, call)]

\* ---- Ancestors ----
AncestorsNew(t, node_id) ==
    [NoIter EXCEPT !.kind = "Ancestors", !.start = node_id,
                   !.node_id = Some(node_id)]

\* Variant: the root is never produced (the walk stops at a parent that has
\* no parent itself).
AncestorsNext_OmitsRoot(t, it) ==
    IF IsSome(it.node_id)
    THEN LET current_id == Unwrap(it.node_id)
             cur == GetUnsafe(t, current_id)
         IN  IF IsSome(Parent(cur)) /\ IsSome(Parent(GetUnsafe(t, Unwrap(Parent(cur)))))
             THEN LET parent_id == Unwrap(Parent(cur))
                      parent == GetUnsafe(t, parent_id)
                  IN  Record([it EXCEPT !.node_id = Some(parent_id)],
                             Call(Some(parent), <<current_id, parent_id>>))
             ELSE Record([it EXCEPT !.node_id = None],
                         Call(None, <<current_id>>))
    ELSE Record(it, Call(None, <<>>))

\* Variant: the current node is produced instead of its parent.
AncestorsNext_YieldsCurrent(t, it) ==
    IF IsSome(it.node_id)
    THEN LET current_id == Unwrap(it.node_id)
             cur == GetUnsafe(t, current_id)
         IN  IF IsSome(Parent(cur))
             THEN LET parent_id == Unwrap(Parent(cur))
                  IN  Record([it EXCEPT !.node_id = Some(parent_id)],
                             Call(Some(cur), <<current_id>>))
             ELSE Record([it EXCEPT !.node_id = None],
                         Call(None, <<current_id>>))
    ELSE Record(it, Call(None, <<>>))

\* Variant: the cursor is not cleared when the root is reached.
AncestorsNext_NoClear(t, it) ==
    IF IsSome(it.node_id)
    THEN LET current_id == Unwrap(it.node_id)
             cur == GetUnsafe(t, current_id)
         IN  IF IsSome(Parent(cur))
             THEN LET parent_id == Unwrap(Parent(cur))
                      parent == GetUnsafe(t, parent_id)
                  IN  Record([it EXCEPT !.node_id = Some(parent_id)],
                             Call(Some(parent), <<current_id, parent_id>>))
             ELSE Record(it, Call(None, <<current_id>>))
    ELSE Record(it, Call(None, <<>>))

AncestorsNext(t, it) ==
    IF IsSome(it.node_id)
    THEN LET current_id == Unwrap(it.node_id)
             cur == GetUnsafe(t, current_id)
         IN  IF IsSome(Parent(cur))
             THEN LET parent_id == Unwrap(Parent(cur))
                      parent == GetUnsafe(t, parent_id)
                  IN  Record([it EXCEPT !.node_id = Some(parent_id)],
                             Call(Some(parent), <<current_id, parent_id>>))
             ELSE Record([it EXCEPT !.node_id = None],
                         Call(None, <<current_id>>))
    ELSE Record(it, Call(None, <<>>))

\* ---- AncestorIds ----
AncestorIdsNew(t, node_id) ==
    [NoIter EXCEPT !.kind = "AncestorIds", !.start = node_id,
                   !.node_id = Some(node_id)]

\* Variant: the current identifier is produced instead of the parent's.
AncestorIdsNext_YieldsCurrent(t, it) ==
    IF IsSome(it.node_id)
    THEN LET current_id == Unwrap(it.node_id)
             cur == GetUnsafe(t, current_id)
         IN  IF IsSome(Parent(cur))
             THEN LET parent_id == Unwrap(Parent(cur))
                  IN  Record([it EXCEPT !.node_id = Some(parent_id)],
                             Call(Some(current_id), <<current_id>>))
             ELSE Record([it EXCEPT !.node_id = None],
                         Call(None, <<current_id>>))
    ELSE Record(it, Call(None, <<>>))

\* Variant: the walk includes its starting node (produce the cursor, then
\* move it to the parent).
AncestorIdsNext_InclusiveSelf(t, it) ==
    IF IsSome(it.node_id)
    THEN LET current_id == Unwrap(it.node_id)
             cur == GetUnsafe(t, current_id)
         IN  Record([it EXCEPT !.node_id = Parent(cur)],
                    Call(Some(current_id), <<current_id>>))
    ELSE Record(it, Call(None, <<>>))

\* Variant: the cursor is not cleared when the root is reached.
AncestorIdsNext_NoClear(t, it) ==
    IF IsSome(it.node_id)
    THEN LET current_id == Unwrap(it.node_id)
             cur == GetUnsafe(t, current_id)
         IN  IF IsSome(Parent(cur))
             THEN LET parent_id == Unwrap(Parent(cur))
                  IN  Record([it EXCEPT !.node_id = Some(parent_id)],
                             Call(Some(parent_id), <<current_id>>))
             ELSE Record(it, Call(None, <<current_id>>))
    ELSE Record(it, Call(None, <<>>))

\* Variant: the root is taken for its own parent, so the walk never leaves
\* it.
AncestorIdsNext_RootRepeats(t, it) ==
    IF IsSome(it.node_id)
    THEN LET current_id == Unwrap(it.node_id)
             cur == GetUnsafe(t, current_id)
             parent_id == IF IsSome(Parent(cur)) THEN Unwrap(Parent(cur))
                          ELSE current_id
         IN  Record([it EXCEPT !.node_id = Some(parent_id)],
                    Call(Some(parent_id), <<current_id>>))
    ELSE Record(it, Call(None, <<>>))

\* Variant: the parent is resolved in the tree although only its identifier
\* is produced.
AncestorIdsNext_ResolvesParent(t, it) ==
    IF IsSome(it.node_id)
    THEN LET current_id == Unwrap(it.node_id)
             cur == GetUnsafe(t, current_id)
         IN  IF IsSome(Parent(cur))
             THEN LET parent_id == Unwrap(Parent(cur))
                      parent == GetUnsafe(t, parent_id)
                  IN  Record([it EXCEPT !.node_id = Some(parent.addr)],
                             Call(Some(parent_id), <<current_id, parent_id>>))
             ELSE Record([it EXCEPT !.node_id = None],
                         Call(None, <<current_id>>))
    ELSE Record(it, Call(None, <<>>))

AncestorIdsNext(t, it) ==
    IF IsSome(it.node_id)
    THEN LET current_id == Unwrap(it.node_id)
             cur == GetUnsafe(t, current_id)
         IN  IF IsSome(Parent(cur))
             THEN LET parent_id == Unwrap(Parent(cur))
                  IN  Record([it EXCEPT !.node_id = Some(parent_id)],
                             Call(Some(parent_id), <<current_id>>))
             ELSE Record([it EXCEPT !.node_id = None],
                         Call(None, <<current_id>>))
    ELSE Record(it, Call(None, <<>>))

\* ---- Children ----
\* Reverse of a sequence.
Reverse(q) == [k \in 1..Len(q) |-> q[Len(q) + 1 - k]]

\* Variant: the child list is walked from its last element (.iter().rev()).
ChildrenNew_Reversed(t, node_id) ==
    [NoIter EXCEPT !.kind = "Children", !.start = node_id,
                   !.new_lookups = <<node_id>>,
                   !.slice = Reverse(ChildrenOf(GetUnsafe(t, node_id)))]

ChildrenNew(t, node_id) ==
    [NoIter EXCEPT !.kind = "Children", !.start = node_id,
                   !.new_lookups = <<node_id>>,
                   !.slice = ChildrenOf(GetUnsafe(t, node_id))]

\* Variant: the child identifier is taken for a 0-based index and shifted by
\* one before it is resolved.
ChildrenNext_OffByOne(t, it) ==
    LET nx == SliceNext(it.slice, it.pos)
    IN  IF IsSome(nx.item)
        THEN LET next_child_id == Unwrap(nx.item) + 1
             IN  Record([it EXCEPT !.pos = nx.pos],
                        Call(Some(GetUnsafe(t, next_child_id)), <<next_child_id>>))
        ELSE Record([it EXCEPT !.pos = nx.pos], Call(None, <<>>))

\* Variant: a call made at the end of the list rewinds the cursor.
ChildrenNext_Rewinds(t, it) ==
    LET nx == SliceNext(it.slice, it.pos)
    IN  IF IsSome(nx.item)
        THEN LET next_child_id == Unwrap(nx.item)
             IN  Record([it EXCEPT !.pos = nx.pos],
                        Call(Some(GetUnsafe(t, next_child_id)), <<next_child_id>>))
        ELSE Record([it EXCEPT !.pos = 0], Call(None, <<>>))

ChildrenNext(t, it) ==
    LET nx == SliceNext(it.slice, it.pos)
    IN  IF IsSome(nx.item)
        THEN LET next_child_id == Unwrap(nx.item)
             IN  Record([it EXCEPT !.pos = nx.pos],
                        Call(Some(GetUnsafe(t, next_child_id)), <<next_child_id>>))
        ELSE Record([it EXCEPT !.pos = nx.pos], Call(None, <<>>))

\* ---- ChildrenIds ----
\* Variant: the child list of the root is taken instead of the one of node_id.
ChildrenIdsNew_OfRoot(t, node_id) ==
    [NoIter EXCEPT !.kind = "ChildrenIds", !.start = node_id,
                   !.new_lookups = <<Unwrap(t.root)>>,
                   !.slice = ChildrenOf(GetUnsafe(t, Unwrap(t.root)))]

ChildrenIdsNew(t, node_id) ==
    [NoIter EXCEPT !.kind = "ChildrenIds", !.start = node_id,
                   !.new_lookups = <<node_id>>,
                   !.slice = ChildrenOf(GetUnsafe(t, node_id))]

\* Variant: the list is consumed from its back (next_back).
ChildrenIdsNext_Back(t, it) ==
    IF it.pos < Len(it.slice)
    THEN Record([it EXCEPT !.pos = it.pos + 1],
                Call(Some(it.slice[Len(it.slice) - it.pos]), <<>>))
    ELSE Record(it, Call(None, <<>>))

\* Variant: the list is cycled (.cycle()): after the last child comes the
\* first again.
ChildrenIdsNext_Cycle(t, it) ==
    LET nx == SliceNext(it.slice, it.pos)
    IN  IF IsSome(nx.item) \/ it.slice = <<>>
        THEN Record([it EXCEPT !.pos = nx.pos], Call(nx.item, <<>>))
        ELSE Record([it EXCEPT !.pos = 1], Call(Some(it.slice[1]), <<>>))

\* Variant: the position is advanced by every call, also by one made at the
\* end of the list.
ChildrenIdsNext_AlwaysAdvances(t, it) ==
    LET nx == SliceNext(it.slice, it.pos)
    IN  Record([it EXCEPT !.pos = it.pos + 1], Call(nx.item, <<>>))

\* Variant: the walk stops one element before the end of the list.
ChildrenIdsNext_DropsLast(t, it) ==
    IF it.pos + 1 < Len(it.slice)
    THEN Record([it EXCEPT !.pos = it.pos + 1], Call(Some(it.slice[it.pos + 1]), <<>>))
    ELSE Record(it, Call(None, <<>>))

ChildrenIdsNext(t, it) ==
    LET nx == SliceNext(it.slice, it.pos)
    IN  Record([it EXCEPT !.pos = nx.pos], Call(nx.item, <<>>))

\* ---- state machine ----
Init ==
    /\ tree = TreeNew
    /\ its = [i \in Iters |-> NoIter]

\* No iterator borrows the tree: only then may the tree be mutated.
NoBorrow == \A i \in Iters : its[i].kind = "none"

\* The payload of a node is opaque to the iterators; as in the tests, the
\* k-th node inserted carries the payload k - 1.
NextData == Len(tree.nodes)

InsertAsRoot ==
    /\ NoBorrow
    /\ Len(tree.nodes) < MaxNodes
    /\ tree' = InsertAsRootTree(tree, NextData)
    /\ UNCHANGED its

InsertUnderNode(p) ==
    /\ NoBorrow
    /\ Len(tree.nodes) < MaxNodes
    /\ IsLive(tree, p)
    /\ tree' = InsertUnderNodeTree(tree, NextData, p)
    /\ UNCHANGED its

\* The handles a call of next may leave behind, given the handle `before`
\* and the handle `after` that the code computes.  A call that resolves an
\* identifier naming no live node has undefined behaviour: it may produce
\* what it read, or nothing, with the cursor moved or not.
Outcomes(t, before, after) ==
    LET call == after.out[Len(after.out)]
    IN  IF \A k \in 1..Len(call.lookups) : IsLive(t, call.lookups[k])
        THEN {after}
        ELSE {after,
              [after EXCEPT !.out[Len(after.out)].res = None],
              Record(before, call),
              Record(before, Call(None, call.lookups))}

\* Tree::ancestors(&id): checks the identifier, then Ancestors::new.
TreeAncestors(i, n) ==
    /\ its[i].kind = "none"
    /\ IsLive(tree, n)
    /\ its' = [its EXCEPT ![i] = AncestorsNew(tree, n)]
    /\ UNCHANGED tree

TreeAncestorIds(i, n) ==
    /\ its[i].kind = "none"
    /\ IsLive(tree, n)
    /\ its' = [its EXCEPT ![i] = AncestorIdsNew(tree, n)]
    /\ UNCHANGED tree

TreeChildren(i, n) ==
    /\ its[i].kind = "none"
    /\ IsLive(tree, n)
    /\ its' = [its EXCEPT ![i] = ChildrenNew(tree, n)]
    /\ UNCHANGED tree

TreeChildrenIds(i, n) ==
    /\ its[i].kind = "none"
    /\ IsLive(tree, n)
    /\ its' = [its EXCEPT ![i] = ChildrenIdsNew(tree, n)]
    /\ UNCHANGED tree

CallAncestorsNext(i) ==
    /\ its[i].kind = "Ancestors"
    /\ Len(its[i].out) < MaxCalls
    /\ \E o \in Outcomes(tree, its[i], AncestorsNext(tree, its[i])) :
          its' = [its EXCEPT ![i] = o]
    /\ UNCHANGED tree

\* Variant: the cursor is shared by all AncestorIds iterators (one cursor per
\* type instead of one per iterator).
CallAncestorIdsNext_SharedCursor(i) ==
    /\ its[i].kind = "AncestorIds"
    /\ Len(its[i].out) < MaxCalls
    /\ LET after == AncestorIdsNext(tree, its[i])
       IN  its' = [h \in Iters |->
                     IF h = i THEN after
                     ELSE IF its[h].kind = "AncestorIds"
                          THEN [its[h] EXCEPT !.node_id = after.node_id]
                          ELSE its[h]]
    /\ UNCHANGED tree

CallAncestorIdsNext(i) ==
    /\ its[i].kind = "AncestorIds"
    /\ Len(its[i].out) < MaxCalls
    /\ \E o \in Outcomes(tree, its[i], AncestorIdsNext(tree, its[i])) :
          its' = [its EXCEPT ![i] = o]
    /\ UNCHANGED tree

\* Variant: a draining walk, which removes each produced child from the
\* child list of the starting node.
CallChildrenNext_Drains(i) ==
    /\ its[i].kind = "Children"
    /\ Len(its[i].out) < MaxCalls
    /\ its' = [its EXCEPT ![i] = ChildrenNext(tree, its[i])]
    /\ tree' = IF its[i].pos < Len(its[i].slice)
               THEN [tree EXCEPT !.nodes[its[i].start].children = Tail(@)]
               ELSE tree

CallChildrenNext(i) ==
    /\ its[i].kind = "Children"
    /\ Len(its[i].out) < MaxCalls
    /\ \E o \in Outcomes(tree, its[i], ChildrenNext(tree, its[i])) :
          its' = [its EXCEPT ![i] = o]
    /\ UNCHANGED tree

\* Variant: the children are kept in an unordered collection, so a call
\* produces any one of them.
CallChildrenIdsNext_AnyOrder(i) ==
    /\ its[i].kind = "ChildrenIds"
    /\ Len(its[i].out) < MaxCalls
    /\ IF its[i].pos < Len(its[i].slice)
       THEN \E k \in 1..Len(its[i].slice) :
               its' = [its EXCEPT ![i] =
                          Record([its[i] EXCEPT !.pos = @ + 1],
                                 Call(Some(its[i].slice[k]), <<>>))]
       ELSE its' = [its EXCEPT ![i] = Record(its[i], Call(None, <<>>))]
    /\ UNCHANGED tree

CallChildrenIdsNext(i) ==
    /\ its[i].kind = "ChildrenIds"
    /\ Len(its[i].out) < MaxCalls
    /\ \E o \in Outcomes(tree, its[i], ChildrenIdsNext(tree, its[i])) :
          its' = [its EXCEPT ![i] = o]
    /\ UNCHANGED tree

Next ==
    \/ InsertAsRoot
    \/ \E p \in 1..MaxNodes : InsertUnderNode(p)
    \/ \E i \in Iters, n \in 1..MaxNodes : TreeAncestors(i, n)
    \/ \E i \in Iters, n \in 1..MaxNodes : TreeAncestorIds(i, n)
    \/ \E i \in Iters, n \in 1..MaxNodes : TreeChildren(i, n)
    \/ \E i \in Iters, n \in 1..MaxNodes : TreeChildrenIds(i, n)
    \/ \E i \in Iters : CallAncestorsNext(i)
    \/ \E i \in Iters : CallAncestorIdsNext(i)
    \/ \E i \in Iters : CallChildrenNext(i)
    \/ \E i \in Iters : CallChildrenIdsNext(i)

Spec == Init /\ [][Next]_vars

TypeOK ==
    /\ Len(tree.nodes) <= MaxNodes
    /\ \A i \in Iters : Len(its[i].out) <= MaxCalls

\* ---- vocabulary of the properties ----
Range(f) == {f[k] : k \in DOMAIN f}

Min(a, b) == IF a < b THEN a ELSE b

\* The result of call k of next made on a handle.
Res(it, k) == it.out[k].res

HasNone(it) == \E k \in 1..Len(it.out) : it.out[k].res = None

\* The number of values produced before next first returned no value.
ProducedBeforeNone(it) ==
    (CHOOSE k \in 1..Len(it.out) :
        /\ it.out[k].res = None
        /\ \A j \in 1..(k - 1) : it.out[j].res # None) - 1

\* The nodes at distance k below the root, following child lists only.
RECURSIVE LevelSet(_, _)
LevelSet(t, k) ==
    IF k = 0
    THEN (IF IsSome(t.root) THEN {Unwrap(t.root)} ELSE {})
    ELSE UNION {Range(t.nodes[m].children) : m \in LevelSet(t, k - 1)}

Depth(t, n) == CHOOSE k \in 0..Len(t.nodes) : n \in LevelSet(t, k)

\* The identifier reached from n by following the parent link k times.
RECURSIVE Up(_, _, _)
Up(t, n, k) ==
    IF k = 0 THEN Some(n)
    ELSE LET u == Up(t, n, k - 1)
         IN  IF IsSome(u) THEN t.nodes[Unwrap(u)].parent ELSE None

\* ref is the reference to the node that id names in t.
RefersTo(t, ref, id) == ref.addr = id /\ ref.node = t.nodes[id]

IsAncestorKind(it) == it.kind \in {"Ancestors", "AncestorIds"}

IsChildKind(it) == it.kind \in {"Children", "ChildrenIds"}

\* C1: an Ancestors iterator constructed at n, stepped until it first returns
\* no value, has produced exactly depth(n) nodes, and when depth(n) > 0 the
\* last of them is the root.
C1_AncestorsCountIsDepth ==
    \A i \in Iters :
        (its[i].kind = "Ancestors" /\ HasNone(its[i])) =>
            LET k == ProducedBeforeNone(its[i])
            IN  /\ k = Depth(tree, its[i].start)
                /\ k > 0 =>
                      /\ IsSome(Res(its[i], k))
                      /\ RefersTo(tree, Unwrap(Res(its[i], k)), Unwrap(tree.root))

C1_Witness ==
    \E i \in Iters :
        /\ its[i].kind = "Ancestors"
        /\ HasNone(its[i])
        /\ ProducedBeforeNone(its[i]) = 2
        /\ its[i].start # Len(tree.nodes)

\* C2: the k-th element produced by an Ancestors iterator constructed at n is
\* the node reached by following the parent link k times from n; it is never
\* n itself.
C2_AncestorsKthIsKthParent ==
    \A i \in Iters :
        its[i].kind = "Ancestors" =>
            \A k \in 1..Len(its[i].out) :
                IsSome(Res(its[i], k)) =>
                    /\ IsSome(Up(tree, its[i].start, k))
                    /\ RefersTo(tree, Unwrap(Res(its[i], k)),
                                Unwrap(Up(tree, its[i].start, k)))
                    /\ Unwrap(Res(its[i], k)).addr # its[i].start

C2_Witness ==
    \E i \in Iters :
        /\ its[i].kind = "Ancestors"
        /\ Len(its[i].out) >= 2
        /\ IsSome(Res(its[i], 1))
        /\ IsSome(Res(its[i], 2))
        /\ Unwrap(Res(its[i], 1)).addr > its[i].start

\* C3: an AncestorIds and an Ancestors iterator constructed at the same node
\* run in lockstep: at every step both produce a value or both produce none,
\* and looking up the identifier gives exactly the node.
C3_AncestorIdsLockstep ==
    \A i, j \in Iters :
        (/\ its[i].kind = "Ancestors"
         /\ its[j].kind = "AncestorIds"
         /\ its[i].start = its[j].start) =>
            \A k \in 1..Min(Len(its[i].out), Len(its[j].out)) :
                /\ IsSome(Res(its[i], k)) <=> IsSome(Res(its[j], k))
                /\ IsSome(Res(its[j], k)) =>
                      /\ IsLive(tree, Unwrap(Res(its[j], k)))
                      /\ RefersTo(tree, Unwrap(Res(its[i], k)),
                                  Unwrap(Res(its[j], k)))

C3_Witness ==
    \E i, j \in Iters :
        /\ its[i].kind = "Ancestors"
        /\ its[j].kind = "AncestorIds"
        /\ its[i].start = its[j].start
        /\ Len(its[i].out) = 3
        /\ Len(its[j].out) = 3
        /\ IsSome(Res(its[j], 2))
        /\ Res(its[j], 3) = None

\* C4: a Children iterator constructed at n, stepped until it first returns
\* no value, has produced as many nodes as n has children, and the k-th node
\* produced is the one the k-th identifier of n's child list names.
C4_ChildrenInOrder ==
    \A i \in Iters :
        its[i].kind = "Children" =>
            LET kids == tree.nodes[its[i].start].children
            IN  /\ HasNone(its[i]) => ProducedBeforeNone(its[i]) = Len(kids)
                /\ \A k \in 1..Len(its[i].out) :
                      IsSome(Res(its[i], k)) =>
                          /\ k <= Len(kids)
                          /\ RefersTo(tree, Unwrap(Res(its[i], k)), kids[k])

C4_Witness ==
    \E i \in Iters :
        /\ its[i].kind = "Children"
        /\ HasNone(its[i])
        /\ ProducedBeforeNone(its[i]) = 2

\* C5: a ChildrenIds and a Children iterator constructed at the same node run
\* in lockstep: at every step both produce a value or both produce none, and
\* looking up the identifier gives exactly the node.
C5_ChildrenIdsLockstep ==
    \A i, j \in Iters :
        (/\ its[i].kind = "Children"
         /\ its[j].kind = "ChildrenIds"
         /\ its[i].start = its[j].start) =>
            \A k \in 1..Min(Len(its[i].out), Len(its[j].out)) :
                /\ IsSome(Res(its[i], k)) <=> IsSome(Res(its[j], k))
                /\ IsSome(Res(its[j], k)) =>
                      /\ IsLive(tree, Unwrap(Res(its[j], k)))
                      /\ RefersTo(tree, Unwrap(Res(its[i], k)),
                                  Unwrap(Res(its[j], k)))

C5_Witness ==
    \E i, j \in Iters :
        /\ its[i].kind = "Children"
        /\ its[j].kind = "ChildrenIds"
        /\ its[i].start = its[j].start
        /\ Len(its[i].out) = 3
        /\ Len(its[j].out) = 3
        /\ IsSome(Res(its[j], 2))
        /\ Res(its[j], 3) = None

\* C6: exhaustion is sticky for all four iterators: once next has returned no
\* value, every later call returns no value too, resolving only live
\* identifiers (it never fails).
C6_ExhaustionSticky ==
    \A i \in Iters :
        \A k, l \in 1..Len(its[i].out) :
            (k < l /\ Res(its[i], k) = None) =>
                /\ Res(its[i], l) = None
                /\ \A id \in Range(its[i].out[l].lookups) : IsLive(tree, id)

C6_Witness ==
    \E i, j \in Iters :
        /\ its[i].kind = "Ancestors"
        /\ its[j].kind = "Children"
        /\ \A h \in {i, j} :
              /\ Len(its[h].out) >= 4
              /\ IsSome(Res(its[h], 1))
              /\ Res(its[h], Len(its[h].out) - 1) = None
              /\ Res(its[h], Len(its[h].out)) = None

\* C7: an Ancestors or AncestorIds iterator constructed at the root returns
\* no value on its very first call of next.
C7_RootHasNoAncestors ==
    \A i \in Iters :
        (/\ IsAncestorKind(its[i])
         /\ tree.root = Some(its[i].start)
         /\ Len(its[i].out) >= 1) =>
            Res(its[i], 1) = None

C7_Witness ==
    \E i, j \in Iters :
        /\ its[i].kind = "Ancestors"
        /\ its[j].kind = "AncestorIds"
        /\ tree.root = Some(its[i].start)
        /\ tree.root = Some(its[j].start)
        /\ Len(tree.nodes) >= 2
        /\ Len(its[i].out) >= 1
        /\ Len(its[j].out) >= 1

\* C8: a Children or ChildrenIds iterator constructed at a leaf returns no
\* value on its very first call of next.
C8_LeafHasNoChildren ==
    \A i \in Iters :
        (/\ IsChildKind(its[i])
         /\ tree.nodes[its[i].start].children = <<>>
         /\ Len(its[i].out) >= 1) =>
            Res(its[i], 1) = None

C8_Witness ==
    \E i, j \in Iters :
        /\ its[i].kind = "Children"
        /\ its[j].kind = "ChildrenIds"
        /\ \A h \in {i, j} :
              /\ tree.nodes[its[h].start].children = <<>>
              /\ tree.root # Some(its[h].start)
              /\ Len(its[h].out) >= 1

\* C9: every iterator is finite: an ancestor iterator constructed at n has
\* returned no value by call depth(n)+1, a child iterator constructed at n by
\* call (number of children of n)+1.
C9_FiniteWithinBound ==
    \A i \in Iters :
        /\ IsAncestorKind(its[i]) =>
              LET b == Depth(tree, its[i].start) + 1
              IN  Len(its[i].out) >= b =>
                      \E k \in 1..b : Res(its[i], k) = None
        /\ IsChildKind(its[i]) =>
              LET b == Len(tree.nodes[its[i].start].children) + 1
              IN  Len(its[i].out) >= b =>
                      \E k \in 1..b : Res(its[i], k) = None

C9_Witness ==
    \E i, j \in Iters :
        /\ its[i].kind = "AncestorIds"
        /\ its[j].kind = "ChildrenIds"
        /\ Depth(tree, its[i].start) = 2
        /\ Len(its[i].out) = 3
        /\ Len(tree.nodes[its[j].start].children) = 1
        /\ Len(its[j].out) = 2

\* C10: no constructor and no call of next changes the tree: whenever a step
\* constructs or advances an iterator, every node's data, parent link and
\* child list, and the root, are the same after the step as before.
C10_TreeReadOnly ==
    [][(its' # its) =>
          /\ tree'.root = tree.root
          /\ Len(tree'.nodes) = Len(tree.nodes)
          /\ \A n \in NodeIds(tree) :
                /\ tree'.nodes[n].data = tree.nodes[n].data
                /\ tree'.nodes[n].parent = tree.nodes[n].parent
                /\ tree'.nodes[n].children = tree.nodes[n].children]_vars

C10_Witness ==
    \E i, j \in Iters :
        /\ i # j
        /\ IsAncestorKind(its[i])
        /\ IsChildKind(its[j])
        /\ Len(its[i].out) >= 2
        /\ Len(its[j].out) >= 2
        /\ IsSome(Res(its[i], 1))
        /\ IsSome(Res(its[j], 1))

\* The constructor and the step of each kind of iterator.
NewOf(kind, t, node_id) ==
    CASE kind = "Ancestors" -> AncestorsNew(t, node_id)
      [] kind = "AncestorIds" -> AncestorIdsNew(t, node_id)
      [] kind = "Children" -> ChildrenNew(t, node_id)
      [] kind = "ChildrenIds" -> ChildrenIdsNew(t, node_id)

NextOf(kind, t, it) ==
    CASE kind = "Ancestors" -> AncestorsNext(t, it)
      [] kind = "AncestorIds" -> AncestorIdsNext(t, it)
      [] kind = "Children" -> ChildrenNext(t, it)
      [] kind = "ChildrenIds" -> ChildrenIdsNext(t, it)

\* The handle obtained by constructing an iterator of the kind at node_id and
\* calling next n times on it, with no other iterator around.
RECURSIVE Alone(_, _, _, _)
Alone(t, kind, node_id, n) ==
    IF n = 0 THEN NewOf(kind, t, node_id)
    ELSE NextOf(kind, t, Alone(t, kind, node_id, n - 1))

\* C11: iterators over the same unmodified tree do not interfere: under every
\* interleaving each handle is what it would be had it been stepped alone
\* the same number of times, and a call of next on one handle leaves every
\* other handle unchanged.
C11_NoInterference ==
    /\ [](\A i \in Iters :
            its[i].kind # "none" =>
                its[i] = Alone(tree, its[i].kind, its[i].start, Len(its[i].out)))
    /\ [][\A i \in Iters :
            its'[i].out # its[i].out =>
                \A j \in Iters \ {i} : its'[j] = its[j]]_vars

C11_Witness ==
    /\ its[1].kind = "AncestorIds"
    /\ its[2].kind = "AncestorIds"
    /\ its[1].start # its[2].start
    /\ Len(its[1].out) = 2
    /\ Len(its[2].out) = 2
    /\ IsSome(Res(its[1], 2))
    /\ IsSome(Res(its[2], 1))
    /\ its[1].node_id # its[2].node_id

\* C12: output is deterministic: two iterators of the same kind constructed
\* with the same starting identifier and stepped the same number of times
\* have produced the same results at every call and hold the same cursor.
C12_Deterministic ==
    \A i, j \in Iters :
        (/\ its[i].kind # "none"
         /\ its[i].kind = its[j].kind
         /\ its[i].start = its[j].start
         /\ Len(its[i].out) = Len(its[j].out)) =>
            /\ \A k \in 1..Len(its[i].out) : Res(its[i], k) = Res(its[j], k)
            /\ its[i].node_id = its[j].node_id
            /\ its[i].slice = its[j].slice
            /\ its[i].pos = its[j].pos

C12_Witness ==
    /\ its[1].kind = "ChildrenIds"
    /\ its[2].kind = "ChildrenIds"
    /\ its[1].start = its[2].start
    /\ Len(its[1].slice) = 2
    /\ Len(its[1].out) = 3
    /\ Len(its[2].out) = 3

\* Every parent link, child link and the root of t name live nodes.
LinksLive(t) ==
    /\ IsSome(t.root) => IsLive(t, Unwrap(t.root))
    /\ \A n \in NodeIds(t) :
          /\ IsSome(t.nodes[n].parent) => IsLive(t, Unwrap(t.nodes[n].parent))
          /\ \A c \in Range(t.nodes[n].children) : IsLive(t, c)

\* The identifiers handle it has passed to get_unsafe, in new and in next.
LookedUp(it) ==
    Range(it.new_lookups) \cup UNION {Range(it.out[k].lookups) : k \in 1..Len(it.out)}

\* C13: with a live starting identifier and a tree whose links all name live
\* nodes, every identifier an iterator passes to get_unsafe, in new or in next,
\* names a live node, and every call of next returns either no value or a
\* proper value: the reference to a live node, or a live identifier.
C13_LookupsLive ==
    \A i \in Iters :
        (/\ its[i].kind # "none"
         /\ IsLive(tree, its[i].start)
         /\ LinksLive(tree)) =>
            /\ \A id \in LookedUp(its[i]) : IsLive(tree, id)
            /\ \A k \in 1..Len(its[i].out) :
                  \/ Res(its[i], k) = None
                  \/ /\ its[i].kind \in {"Ancestors", "Children"}
                     /\ IsLive(tree, Unwrap(Res(its[i], k)).addr)
                     /\ RefersTo(tree, Unwrap(Res(its[i], k)),
                                 Unwrap(Res(its[i], k)).addr)
                  \/ /\ its[i].kind \in {"AncestorIds", "ChildrenIds"}
                     /\ IsLive(tree, Unwrap(Res(its[i], k)))

C13_Witness ==
    \E i, j \in Iters :
        /\ its[i].kind = "Ancestors"
        /\ its[j].kind = "Children"
        /\ Len(tree.nodes) = MaxNodes
        /\ LinksLive(tree)
        /\ Cardinality(LookedUp(its[i])) >= 3
        /\ Cardinality(LookedUp(its[j])) >= 2
        /\ HasNone(its[i])
        /\ HasNone(its[j])

\* The identifier of the node a produced element stands for: the address of
\* a node reference, or the identifier itself.
ProducedId(kind, res) ==
    IF kind \in {"Ancestors", "Children"} THEN Unwrap(res).addr ELSE Unwrap(res)

\* The produced element res of an iterator of the kind stands for node id.
Produces(t, kind, res, id) ==
    /\ IsSome(res)
    /\ IF kind \in {"Ancestors", "Children"}
       THEN RefersTo(t, Unwrap(res), id)
       ELSE Unwrap(res) = id

\* Handle i has just been called (its call history grew by one call).
Stepped(i) == Len(its'[i].out) = Len(its[i].out) + 1

LastRes(it) == it.out[Len(it.out)].res

\* C14: a call of next on an ancestor iterator whose cursor holds c either
\* moves the cursor to c's parent p and produces p (never c), when c has a
\* parent, or clears the cursor and produces nothing, when it has none.
\* Hence a non-empty cursor is the starting identifier while nothing has been
\* produced, and the identifier of the last produced element afterwards.
C14_AncestorStep ==
    /\ [][\A i \in Iters :
            (IsAncestorKind(its[i]) /\ IsSome(its[i].node_id) /\ Stepped(i)) =>
                LET c == Unwrap(its[i].node_id)
                    par == tree.nodes[c].parent
                IN  IF IsSome(par)
                    THEN /\ its'[i].node_id = par
                         /\ Produces(tree, its[i].kind, LastRes(its'[i]), Unwrap(par))
                         /\ ProducedId(its[i].kind, LastRes(its'[i])) # c
                    ELSE /\ its'[i].node_id = None
                         /\ LastRes(its'[i]) = None]_vars
    /\ [](\A i \in Iters :
            (IsAncestorKind(its[i]) /\ IsSome(its[i].node_id)) =>
                IF its[i].out = <<>>
                THEN its[i].node_id = Some(its[i].start)
                ELSE /\ IsSome(LastRes(its[i]))
                     /\ its[i].node_id = Some(ProducedId(its[i].kind, LastRes(its[i]))))

C14_Witness ==
    \E i, j \in Iters :
        /\ its[i].kind = "Ancestors"
        /\ its[j].kind = "AncestorIds"
        /\ Len(its[i].out) = 2
        /\ IsSome(its[i].node_id)
        /\ its[i].node_id # Some(its[i].start)
        /\ Len(its[j].out) = 2
        /\ IsSome(Res(its[j], 1))
        /\ its[j].node_id = None

\* The state of an iterator, read off its cursor: an ancestor iterator is
\* Active while its cursor holds an identifier, a child iterator while its
\* position is before the end of the child list.
State(it) ==
    IF IsAncestorKind(it)
    THEN (IF IsSome(it.node_id) THEN "Active" ELSE "Exhausted")
    ELSE (IF it.pos < Len(it.slice) THEN "Active" ELSE "Exhausted")

\* A call of next taken in Active produces one element and stays Active, or
\* produces nothing and becomes Exhausted; taken in Exhausted it produces
\* nothing and stays Exhausted.
SharedStep(before, after) ==
    IF State(before) = "Active"
    THEN \/ IsSome(LastRes(after)) /\ State(after) = "Active"
         \/ LastRes(after) = None /\ State(after) = "Exhausted"
    ELSE LastRes(after) = None /\ State(after) = "Exhausted"

C16_PositionMonotone ==
    /\ [](\A i \in Iters :
            IsChildKind(its[i]) =>
                /\ its[i].out = <<>> => its[i].pos = 0
                /\ its[i].pos >= 0
                /\ its[i].pos <= Len(tree.nodes[its[i].start].children))
    /\ [][\A i \in Iters :
            (IsChildKind(its[i]) /\ Stepped(i)) =>
                /\ its'[i].pos >= its[i].pos
                /\ IF IsSome(LastRes(its'[i]))
                   THEN its'[i].pos = its[i].pos + 1
                   ELSE its'[i].pos = its[i].pos]_vars

C16_Witness ==
    \E i, j \in Iters :
        /\ its[i].kind = "Children"
        /\ its[j].kind = "ChildrenIds"
        /\ \A h \in {i, j} :
              /\ its[h].pos = 2
              /\ Len(its[h].out) = 4
              /\ Len(tree.nodes[its[h].start].children) = 2

\* The calls of handle it that produced an element.
ProducingCalls(it) == {k \in 1..Len(it.out) : IsSome(it.out[k].res)}

\* C17: the sequence produced by an ancestor iterator constructed at n holds
\* no node twice and never n itself, and the depth of its elements decreases
\* by exactly one from each element to the next.
C17_AncestorsDistinctDescending ==
    \A i \in Iters :
        IsAncestorKind(its[i]) =>
            \A k \in ProducingCalls(its[i]) :
                LET idk == ProducedId(its[i].kind, Res(its[i], k))
                IN  /\ idk # its[i].start
                    /\ \A l \in ProducingCalls(its[i]) :
                          LET idl == ProducedId(its[i].kind, Res(its[i], l))
                          IN  /\ l # k => idl # idk
                              /\ l = k + 1 =>
                                    Depth(tree, idl) = Depth(tree, idk) - 1

C17_Witness ==
    \E i, j \in Iters :
        /\ its[i].kind = "Ancestors"
        /\ its[j].kind = "AncestorIds"
        /\ Cardinality(ProducingCalls(its[i])) = 2
        /\ Cardinality(ProducingCalls(its[j])) = 2
        /\ HasNone(its[j])

\* The nodes handle it has produced so far.
ProducedIds(it) ==
    {ProducedId(it.kind, it.out[k].res) : k \in ProducingCalls(it)}

\* C18: ancestor and child traversal agree: m is produced by a child iterator
\* constructed at n (run until it returns no value) if and only if the first
\* element produced by an ancestor iterator constructed at m is n.
C18_ChildrenMatchAncestors ==
    \A i, j \in Iters :
        (/\ IsChildKind(its[i])
         /\ HasNone(its[i])
         /\ IsAncestorKind(its[j])
         /\ Len(its[j].out) >= 1) =>
            (its[j].start \in ProducedIds(its[i])
                <=> Produces(tree, its[j].kind, Res(its[j], 1), its[i].start))

C18_Witness ==
    \E i, j \in Iters :
        /\ its[i].kind = "ChildrenIds"
        /\ HasNone(its[i])
        /\ its[j].kind = "AncestorIds"
        /\ Len(its[j].out) >= 1
        /\ Len(its[i].slice) = 2
        /\ its[j].start = its[i].slice[2]
        /\ Res(its[j], 1) = Some(its[i].start)

\* A call of next can be made on handle i (the model stops calling after
\* MaxCalls calls).
NextEnabled(i) ==
    CASE its[i].kind = "Ancestors" -> ENABLED CallAncestorsNext(i)
      [] its[i].kind = "AncestorIds" -> ENABLED CallAncestorIdsNext(i)
      [] its[i].kind = "Children" -> ENABLED CallChildrenNext(i)
      [] its[i].kind = "ChildrenIds" -> ENABLED CallChildrenIdsNext(i)

AlwaysEnabled ==
    \A i \in Iters :
        (its[i].kind # "none" /\ Len(its[i].out) < MaxCalls) => NextEnabled(i)

\* Call k of handle it was made with an empty cursor (after a call that
\* returned no value).
AfterNone(it, k) == k > 1 /\ it.out[k - 1].res = None

\* The number of identifiers call k of handle it resolves in the tree.
LookupsOf(it, k) ==
    CASE it.kind = "Ancestors" ->
            IF IsSome(it.out[k].res) THEN 2
            ELSE IF AfterNone(it, k) THEN 0 ELSE 1
      [] it.kind = "AncestorIds" ->
            IF AfterNone(it, k) THEN 0 ELSE 1
      [] it.kind = "Children" ->
            IF IsSome(it.out[k].res) THEN 1 ELSE 0
      [] it.kind = "ChildrenIds" -> 0

\* C19 as stated: a call of next is always enabled and resolves exactly one
\* identifier in the tree.
C19_Original ==
    /\ AlwaysEnabled
    /\ \A i \in Iters :
          \A k \in 1..Len(its[i].out) : Len(its[i].out[k].lookups) = 1

\* C19, amended: a call of next is always enabled, is one step, and resolves
\* at most two identifiers in the tree: Ancestors two when it produces an
\* element, one when it reaches the root, none once exhausted; AncestorIds
\* one while its cursor holds an identifier, none once exhausted; Children
\* one when it produces an element, none otherwise; ChildrenIds none.
C19_BoundedLookups ==
    /\ AlwaysEnabled
    /\ \A i \in Iters :
          \A k \in 1..Len(its[i].out) :
              /\ Len(its[i].out[k].lookups) = LookupsOf(its[i], k)
              /\ Len(its[i].out[k].lookups) <= 2

C19_Witness ==
    \E i, j \in Iters :
        /\ its[i].kind = "Ancestors"
        /\ its[j].kind = "ChildrenIds"
        /\ Len(its[i].out) = 3
        /\ Len(its[i].out[1].lookups) = 2
        /\ Len(its[i].out[2].lookups) = 1
        /\ Len(its[i].out[3].lookups) = 0
        /\ Len(its[j].out) = 2
        /\ IsSome(Res(its[j], 1))
        /\ Len(its[j].out[1].lookups) = 0

====
